---- MODULE Spec2Model ----
(***************************************************************************)
(* Model of src/USER-SMD/smd_math.h (namespace SMD_Math).                  *)
(*                                                                         *)
(* Numbers are exact rationals <<n, d>> (d > 0, lowest terms).  3x3        *)
(* matrices are tuples of rows.  The two Eigen solvers the header calls    *)
(* (JacobiSVD, SelfAdjointEigenSolver) are library code: each is modelled  *)
(* as the set of all decompositions that satisfy the solver's contract     *)
(* (sorted values, orthogonal factors), with the orthogonal factors taken  *)
(* from the 48 signed permutation matrices, and every call picks one.      *)
(***************************************************************************)
EXTENDS Integers, Sequences, FiniteSets, TLC

VARIABLES pc, M, R, T, S, U, V, S_eigenvalues, imin, ret, M0, flipped,
          svd, singularValuesInv, pInv,
          es, limitEigenvalue, min, max, S0, retM,
          x, limit, x0

vars == <<pc, M, R, T, S, U, V, S_eigenvalues, imin, ret, M0, flipped,
          svd, singularValuesInv, pInv,
          es, limitEigenvalue, min, max, S0, retM,
          x, limit, x0>>

\* the variables each function leaves alone
polDecLocals == <<R, T, U, V, S_eigenvalues, imin, flipped>>
pinvLocals == <<singularValuesInv, pInv>>
eigenLocals == <<es, limitEigenvalue, min, max, S0, retM>>
doubleLocals == <<x, limit, x0>>

----------------------------------------------------------------------------
(* Exact rational arithmetic standing for double arithmetic.               *)

Abs(n) == IF n < 0 THEN -n ELSE n

RECURSIVE GCD(_, _)
GCD(a, b) == IF b = 0 THEN a ELSE GCD(b, a % b)

RZero == <<0, 1>>
ROne == <<1, 1>>

RNeg(a) == <<-a[1], a[2]>>

\* sums and products cancel common factors first, to stay in TLC's integers
RAdd(a, b) ==
    IF a[1] = 0 THEN b
    ELSE IF b[1] = 0 THEN a
    ELSE LET g == GCD(a[2], b[2])
             n == a[1] * (b[2] \div g) + b[1] * (a[2] \div g)
             d == (a[2] \div g) * b[2]
             h == GCD(Abs(n), d)
         IN IF n = 0 THEN RZero ELSE <<n \div h, d \div h>>

RSub(a, b) == RAdd(a, RNeg(b))

RMul(a, b) ==
    IF a[1] = 0 \/ b[1] = 0 THEN RZero
    ELSE IF a = ROne THEN b
    ELSE IF b = ROne THEN a
    ELSE LET g1 == GCD(Abs(a[1]), b[2])
             g2 == GCD(Abs(b[1]), a[2])
         IN <<(a[1] \div g1) * (b[1] \div g2), (a[2] \div g2) * (b[2] \div g1)>>

\* 1 / b; a zero b gives <<1, 0>>, the infinity of a double, and dividing a
\* finite value by that gives zero
RRecip(b) == IF b[1] < 0 THEN <<-b[2], -b[1]>> ELSE <<b[2], b[1]>>

RDiv(a, b) == RMul(a, RRecip(b))

\* a1/a2 < b1/b2 for non-negative fractions, by their continued fractions
RECURSIVE NLess(_, _, _, _)
NLess(a1, a2, b1, b2) ==
    LET qa == a1 \div a2
        qb == b1 \div b2
        ra == a1 % a2
        rb == b1 % b2
    IN IF qa # qb THEN qa < qb
       ELSE IF rb = 0 THEN FALSE
       ELSE IF ra = 0 THEN TRUE
       ELSE NLess(b2, rb, a2, ra)

RLess(a, b) ==
    IF a[1] < 0
    THEN IF b[1] < 0 THEN NLess(-b[1], b[2], -a[1], a[2]) ELSE TRUE
    ELSE IF b[1] < 0 THEN FALSE ELSE NLess(a[1], a[2], b[1], b[2])

RLeq(a, b) == ~RLess(b, a)

fabs(a) == <<Abs(a[1]), a[2]>>

----------------------------------------------------------------------------
(* Matrix3d and Vector3d.                                                  *)

Idx == 1..3

\* tuples are built entry by entry, as Eigen's fixed-size types store them
Vec(f(_)) == <<f(1), f(2), f(3)>>

Mat(f(_, _)) ==
    <<<<f(1, 1), f(1, 2), f(1, 3)>>,
      <<f(2, 1), f(2, 2), f(2, 3)>>,
      <<f(3, 1), f(3, 2), f(3, 3)>>>>

ZeroMat == LET f(i, j) == RZero IN Mat(f)

Identity == LET f(i, j) == IF i = j THEN ROne ELSE RZero IN Mat(f)

asDiagonal(v) == LET f(i, j) == IF i = j THEN v[i] ELSE RZero IN Mat(f)

transpose(A) == LET f(i, j) == A[j][i] IN Mat(f)

MatMul(A, B) ==
    LET f(i, j) == RAdd(RMul(A[i][1], B[1][j]),
                        RAdd(RMul(A[i][2], B[2][j]), RMul(A[i][3], B[3][j])))
    IN Mat(f)

MatVec(A, v) ==
    LET f(i) == RAdd(RMul(A[i][1], v[1]),
                     RAdd(RMul(A[i][2], v[2]), RMul(A[i][3], v[3])))
    IN Vec(f)

VecScale(c, v) == LET f(i) == RMul(c, v[i]) IN Vec(f)

col(A, j) == LET f(i) == A[i][j] IN Vec(f)

diagonal(A) == LET f(i) == A[i][i] IN Vec(f)

determinant(A) ==
    RAdd(RMul(A[1][1], RSub(RMul(A[2][2], A[3][3]), RMul(A[2][3], A[3][2]))),
    RAdd(RMul(A[1][2], RSub(RMul(A[2][3], A[3][1]), RMul(A[2][1], A[3][3]))),
         RMul(A[1][3], RSub(RMul(A[2][1], A[3][2]), RMul(A[2][2], A[3][1])))))

\* Matrix3d::inverse(): adjugate over determinant
inverse(A) ==
    LET nx(i) == (i % 3) + 1
        cof(i, j) ==
            RSub(RMul(A[nx(i)][nx(j)], A[nx(nx(i))][nx(nx(j))]),
                 RMul(A[nx(i)][nx(nx(j))], A[nx(nx(i))][nx(j)]))
        d == determinant(A)
        f(i, j) == RDiv(cof(j, i), d)
    IN Mat(f)

IsDiagonal(A) == \A i, j \in Idx : i # j => A[i][j] = RZero

----------------------------------------------------------------------------
(* Orthogonal factors the solvers may return: the signed permutation       *)
(* matrices, kept as (permutation, signs): column j is e[j] * unit(p[j]).  *)

Perm3 == {p \in [Idx -> Idx] : \A i, j \in Idx : i # j => p[i] # p[j]}

Sign3 == [Idx -> {-1, 1}]

SignedPerm == [p : Perm3, e : Sign3]

ToMat(g) ==
    LET f(i, j) == IF g.p[j] = i THEN <<g.e[j], 1>> ELSE RZero IN Mat(f)

(* A rotation-reflection with rational entries that is no signed           *)
(* permutation, and the frames in which the solvers' factors are sought.   *)
Q == <<<< <<1, 3>>, <<2, 3>>, <<2, 3>> >>,
       << <<2, 3>>, <<1, 3>>, <<-2, 3>> >>,
       << <<2, 3>>, <<-2, 3>>, <<1, 3>> >> >>

Frames == {Identity, Q}

(* JacobiSVD<Matrix3d>(A, ComputeFullU | ComputeFullV): every triple       *)
(* (U, singular values, V) with U, V orthogonal, the singular values       *)
(* non-negative and sorted in decreasing order, and U * diag * V^T = A.    *)
(* U = L * u and V = K * v for frames L, K and signed permutations u, v;   *)
(* the permutations are filtered before the signs are enumerated.          *)
JacobiSVDIn(L, K, A) ==
    LET B == MatMul(MatMul(transpose(L), A), K)
        shape(pu, pv) ==
            /\ \A i, j \in Idx : i # j => B[pu[i]][pv[j]] = RZero
            /\ RLeq(fabs(B[pu[2]][pv[2]]), fabs(B[pu[1]][pv[1]]))
            /\ RLeq(fabs(B[pu[3]][pv[3]]), fabs(B[pu[2]][pv[2]]))
        shapes == {w \in Perm3 \X Perm3 : shape(w[1], w[2])}
        sign(w, eu, ev) ==
            \A i \in Idx : eu[i] * ev[i] * B[w[1][i]][w[2][i]][1] >= 0
    IN UNION {
         {[matrixU |-> MatMul(L, ToMat([p |-> w[1], e |-> ee[1]])),
           singularValues |-> LET f(i) == fabs(B[w[1][i]][w[2][i]]) IN Vec(f),
           matrixV |-> MatMul(K, ToMat([p |-> w[2], e |-> ee[2]]))] :
             ee \in {f \in Sign3 \X Sign3 : sign(w, f[1], f[2])}} :
         w \in shapes}

JacobiSVD(A) == UNION {JacobiSVDIn(L, K, A) : L \in Frames, K \in Frames}

(* SelfAdjointEigenSolver<Matrix3d>::compute(A): every pair (eigenvalues,  *)
(* eigenvectors) with the eigenvalues sorted in increasing order and the   *)
(* eigenvectors the orthonormal columns of V, A * V = V * diag.            *)
SelfAdjointEigenSolverIn(L, A) ==
    LET B == MatMul(MatMul(transpose(L), A), L)
        shape(p) ==
            /\ \A i, j \in Idx : i # j => B[p[i]][p[j]] = RZero
            /\ RLeq(B[p[1]][p[1]], B[p[2]][p[2]])
            /\ RLeq(B[p[2]][p[2]], B[p[3]][p[3]])
    IN {[eigenvalues |-> LET f(i) == B[w[1][i]][w[1][i]] IN Vec(f),
         eigenvectors |-> MatMul(L, ToMat([p |-> w[1], e |-> w[2]]))] :
           w \in {q \in Perm3 \X Sign3 : shape(q[1])}}

SelfAdjointEigenSolver(A) == UNION {SelfAdjointEigenSolverIn(L, A) : L \in Frames}

NoSVD == [matrixU |-> ZeroMat, singularValues |-> <<RZero, RZero, RZero>>,
          matrixV |-> ZeroMat]

\* Vector3d::minCoeff(&index): the first index holding the smallest entry
minCoeffIndex(v) ==
    CHOOSE i \in Idx : /\ \A j \in Idx : RLeq(v[i], v[j])
                       /\ \A j \in Idx : j < i => RLess(v[i], v[j])

minCoeff(v) == v[minCoeffIndex(v)]

maxCoeff(v) == v[CHOOSE i \in Idx : \A j \in Idx : RLeq(v[j], v[i])]

----------------------------------------------------------------------------
(* Inputs.  A value grid is the first N entries of a fixed list.           *)

NumStretch == 5

StretchGrid ==
    <<RZero, <<1, 4>>, ROne, <<5, 2>>, <<3, 10>>, <<2, 1>>, <<1, 2>>, <<3, 1>>>>

Stretches == {StretchGrid[k] : k \in 1..NumStretch}

\* singular-value triples of the inputs, with at most MaxZeros zeros
MaxZeros == 1

StretchTriples ==
    {s \in Stretches \X Stretches \X Stretches :
        /\ RLeq(s[2], s[1]) /\ RLeq(s[3], s[2])
        /\ Cardinality({i \in Idx : s[i] = RZero}) <= MaxZeros}

\* left factors of the inputs: identity, a reflection, a rotation by a
\* cyclic permutation with two signs changed, and Q
InputLeft ==
    {ToMat([p |-> <<1, 2, 3>>, e |-> <<1, 1, 1>>]),
     ToMat([p |-> <<1, 2, 3>>, e |-> <<1, 1, -1>>]),
     ToMat([p |-> <<2, 3, 1>>, e |-> <<-1, 1, -1>>]),
     Q}

\* right factors of the inputs: identity, a transposition, and Q
InputRight ==
    {ToMat([p |-> <<1, 2, 3>>, e |-> <<1, 1, 1>>]),
     ToMat([p |-> <<2, 1, 3>>, e |-> <<1, 1, 1>>]),
     Q}

MonomialInputs ==
    {MatMul(MatMul(a, asDiagonal(s)), transpose(b)) :
        a \in InputLeft, b \in InputRight, s \in StretchTriples}

----------------------------------------------------------------------------------------------------------------------------------------------------
(* Values of the variables a function does not use.                        *)

NoVec == <<RZero, RZero, RZero>>

NoEig == [eigenvalues |-> NoVec, eigenvectors |-> ZeroMat]

NoDouble == [neg |-> FALSE, mag |-> 0]

PolDecIdle ==
    /\ R = ZeroMat /\ T = ZeroMat /\ U = ZeroMat /\ V = ZeroMat
    /\ S_eigenvalues = NoVec /\ imin = 0 /\ flipped = FALSE

PinvIdle == singularValuesInv = NoVec /\ pInv = ZeroMat

EigenIdle ==
    /\ es = NoEig /\ limitEigenvalue = RZero /\ min = RZero /\ max = RZero
    /\ S0 = ZeroMat /\ retM = ZeroMat

DoubleIdle == x = NoDouble /\ limit = NoDouble /\ x0 = NoDouble

----
(* PolDec(Matrix3d &M, Matrix3d &R, Matrix3d &T)                           *)

PolDec_min == <<3, 10>>
PolDec_max == <<2, 1>>
PolDec_tol == <<1, 100000000>>

\* lines 53-63: first SVD, the locals, R = U * V^T
PolDec_SVD ==
    /\ pc = "PolDec"
    /\ \E d \in JacobiSVD(M) :
         /\ svd' = d
         /\ S_eigenvalues' = d.singularValues
         /\ S' = asDiagonal(d.singularValues)
         /\ U' = d.matrixU
         /\ V' = d.matrixV
         /\ R' = MatMul(d.matrixU, transpose(d.matrixV))
    /\ pc' = "PolDec_if"
    /\ UNCHANGED <<M, T, imin, ret, M0, flipped>>
    /\ UNCHANGED <<pinvLocals, eigenLocals, doubleLocals>>

\* line 65: R.determinant() < 0.0
PolDec_Improper == RLess(determinant(R), RZero)

\* lines 65-73 without lines 74-77: not what the code does
PolDec_Flip_NoRecompute ==
    /\ pc = "PolDec_if"
    /\ PolDec_Improper
    /\ LET im == minCoeffIndex(S_eigenvalues)
       IN /\ imin' = im
          /\ S' = [S EXCEPT ![im][im] = RMul(@, <<-1, 1>>)]
    /\ flipped' = TRUE
    /\ pc' = "PolDec_scale"
    /\ UNCHANGED <<M, R, T, U, V, S_eigenvalues, ret, M0, svd>>
    /\ UNCHANGED <<pinvLocals, eigenLocals, doubleLocals>>

\* lines 65-79, with S rebuilt from the second SVD: not what the code does
PolDec_Flip_RefreshS ==
    /\ pc = "PolDec_if"
    /\ PolDec_Improper
    /\ LET im == minCoeffIndex(S_eigenvalues)
           Sf == [S EXCEPT ![im][im] = RMul(@, <<-1, 1>>)]
           F == MatMul(MatMul(U, Sf), transpose(V))
       IN /\ imin' = im
          /\ \E d \in JacobiSVD(F) :
               /\ svd' = d
               /\ S' = asDiagonal(d.singularValues)
               /\ U' = d.matrixU
               /\ V' = d.matrixV
               /\ R' = MatMul(d.matrixU, transpose(d.matrixV))
    /\ flipped' = TRUE
    /\ pc' = "PolDec_scale"
    /\ UNCHANGED <<M, T, S_eigenvalues, ret, M0>>
    /\ UNCHANGED <<pinvLocals, eigenLocals, doubleLocals>>

\* lines 65-79: the improper-rotation branch
PolDec_Flip ==
    /\ pc = "PolDec_if"
    /\ PolDec_Improper
    /\ LET im == minCoeffIndex(S_eigenvalues)
           Sf == [S EXCEPT ![im][im] = RMul(@, <<-1, 1>>)]
           F == MatMul(MatMul(U, Sf), transpose(V))
       IN /\ imin' = im
          /\ S' = Sf
          /\ \E d \in JacobiSVD(F) :
               /\ svd' = d
               /\ U' = d.matrixU
               /\ V' = d.matrixV
               /\ R' = MatMul(d.matrixU, transpose(d.matrixV))
    /\ flipped' = TRUE
    /\ pc' = "PolDec_scale"
    /\ UNCHANGED <<M, T, S_eigenvalues, ret, M0>>
    /\ UNCHANGED <<pinvLocals, eigenLocals, doubleLocals>>

\* line 65, condition false
PolDec_NoFlip ==
    /\ pc = "PolDec_if"
    /\ ~PolDec_Improper
    /\ pc' = "PolDec_scale"
    /\ UNCHANGED <<M, S, ret, M0, svd, polDecLocals>>
    /\ UNCHANGED <<pinvLocals, eigenLocals, doubleLocals>>

\* lines 88-92 without the else-if arm: not what the code does
PolDec_ClampEntry_NoMax(s) == IF RLess(s, PolDec_min) THEN PolDec_min ELSE s

\* lines 88-92 with the first comparison turned round: not what the code does
PolDec_ClampEntry_Swapped(s) ==
    IF RLess(PolDec_min, s) THEN PolDec_min
    ELSE IF RLess(PolDec_max, s) THEN PolDec_max
    ELSE s

\* lines 88-92: one pass of the loop body on a diagonal entry
PolDec_ClampEntry(s) ==
    IF RLess(s, PolDec_min) THEN PolDec_min
    ELSE IF RLess(PolDec_max, s) THEN PolDec_max
    ELSE s

\* lines 85-93: the scaling loop over i = 0, 1, 2
PolDec_Scale ==
    /\ pc = "PolDec_scale"
    /\ S' = LET f(i, j) == IF i = j THEN PolDec_ClampEntry(S[i][i]) ELSE S[i][j]
            IN Mat(f)
    /\ pc' = "PolDec_T"
    /\ UNCHANGED <<M, ret, M0, svd, polDecLocals>>
    /\ UNCHANGED <<pinvLocals, eigenLocals, doubleLocals>>

\* line 98 without fabs: not what the code does
PolDec_Result_NoFabs(Rm) == RLess(RSub(determinant(Rm), ROne), PolDec_tol)

\* line 98: fabs(R.determinant() - 1.0) < 1.0e-8
PolDec_Result(Rm) == RLess(fabs(RSub(determinant(Rm), ROne)), PolDec_tol)

\* lines 95-102 with M taken by value: not what the code does
PolDec_Return_ByValue ==
    /\ pc = "PolDec_T"
    /\ T' = MatMul(MatMul(V, S), transpose(V))
    /\ ret' = PolDec_Result(R)
    /\ pc' = "PolDec_done"
    /\ UNCHANGED <<M, R, S, U, V, S_eigenvalues, imin, M0, flipped, svd>>
    /\ UNCHANGED <<pinvLocals, eigenLocals, doubleLocals>>

\* lines 95-102: T, the overwritten M, the return value
PolDec_Return ==
    /\ pc = "PolDec_T"
    /\ T' = MatMul(MatMul(V, S), transpose(V))
    /\ M' = MatMul(R, T')
    /\ ret' = PolDec_Result(R)
    /\ pc' = "PolDec_done"
    /\ UNCHANGED <<R, S, U, V, S_eigenvalues, imin, M0, flipped, svd>>
    /\ UNCHANGED <<pinvLocals, eigenLocals, doubleLocals>>

InitPolDec ==
    /\ pc = "PolDec"
    /\ M \in MonomialInputs
    /\ M0 = M
    /\ S = ZeroMat /\ ret = FALSE /\ svd = NoSVD
    /\ PolDecIdle /\ PinvIdle /\ EigenIdle /\ DoubleIdle

NextPolDec ==
    \/ PolDec_SVD
    \/ PolDec_Flip
    \/ PolDec_NoFlip
    \/ PolDec_Scale
    \/ PolDec_Return

SpecPolDec == InitPolDec /\ [][NextPolDec]_vars

----------------------------------------------------------------------------
(* pseudo_inverse_SVD(Matrix3d M)                                          *)

pinvtoler == <<1, 1000000>>

NumPinv == 4

PinvGrid ==
    <<RZero, <<1, 1000000>>, <<1, 500000>>, ROne, <<1, 2000000>>, <<2, 1>>,
      <<1, 2>>>>

PinvValues == {PinvGrid[k] : k \in 1..NumPinv}

PinvTriples ==
    {s \in PinvValues \X PinvValues \X PinvValues :
        /\ RLeq(s[2], s[1]) /\ RLeq(s[3], s[2])
        /\ Cardinality({i \in Idx : s[i] = RZero}) <= MaxZeros}

\* Q is a factor on one side at most: with values near 1e-6 and near 1 mixed
\* in every entry, products of three matrices leave TLC's 32-bit integers
PinvFactors == {w \in InputLeft \X InputRight : w[1] # Q \/ w[2] # Q}

PinvInputs ==
    {MatMul(MatMul(w[1], asDiagonal(s)), transpose(w[2])) :
        w \in PinvFactors, s \in PinvTriples}

\* lines 117-122: the SVD and the copies of its factors
pinv_SVD ==
    /\ pc = "pinv"
    /\ svd' \in JacobiSVD(M)
    /\ pc' = "pinv_loop"
    /\ UNCHANGED <<M, M0, S, ret, pinvLocals>>
    /\ UNCHANGED <<polDecLocals, eigenLocals, doubleLocals>>

\* lines 129-133 with >= for >: not what the code does
pinv_InvertEntry_Geq(s) == IF RLeq(pinvtoler, s) THEN RDiv(ROne, s) ELSE ROne

\* lines 129-133: the loop body for one singular value
pinv_InvertEntry(s) == IF RLess(pinvtoler, s) THEN RDiv(ROne, s) ELSE ROne

\* lines 127-134: the loop over row = 0, 1, 2
pinv_Invert ==
    /\ pc = "pinv_loop"
    /\ singularValuesInv' =
          LET f(row) == pinv_InvertEntry(svd.singularValues[row]) IN Vec(f)
    /\ pc' = "pinv_build"
    /\ UNCHANGED <<M, M0, S, ret, svd, pInv>>
    /\ UNCHANGED <<polDecLocals, eigenLocals, doubleLocals>>

\* lines 136-139: pInv = V * diag * U^T, returned
pinv_Return ==
    /\ pc = "pinv_build"
    /\ pInv' = MatMul(MatMul(svd.matrixV, asDiagonal(singularValuesInv)),
                      transpose(svd.matrixU))
    /\ pc' = "pinv_done"
    /\ UNCHANGED <<M, M0, S, ret, svd, singularValuesInv>>
    /\ UNCHANGED <<polDecLocals, eigenLocals, doubleLocals>>

InitPinv ==
    /\ pc = "pinv"
    /\ M \in PinvInputs
    /\ M0 = M
    /\ S = ZeroMat /\ ret = FALSE /\ svd = NoSVD
    /\ PolDecIdle /\ PinvIdle /\ EigenIdle /\ DoubleIdle

NextPinv ==
    \/ pinv_SVD
    \/ pinv_Invert
    \/ pinv_Return

SpecPinv == InitPinv /\ [][NextPinv]_vars

----------------------------------------------------------------------------
(* Inputs of the two eigenvalue limiters.                                  *)

NumEig == 5

EigGrid ==
    <<RZero, ROne, <<-1, 1>>, <<5, 1>>, <<-5, 1>>, <<2, 1>>, <<-2, 1>>,
      <<3, 1>>>>

EigValues == {EigGrid[k] : k \in 1..NumEig}

EigTriples ==
    {l \in EigValues \X EigValues \X EigValues :
        RLeq(l[1], l[2]) /\ RLeq(l[2], l[3])}

SymmetricInputs ==
    {MatMul(MatMul(a, asDiagonal(l)), transpose(a)) :
        a \in Frames, l \in EigTriples}

NumLimit == 3

LimitGrid == <<<<2, 1>>, RZero, ROne, <<5, 1>>, <<1, 2>>>>

Limits == {LimitGrid[k] : k \in 1..NumLimit}

SignedLimits == Limits \cup {RNeg(l) : l \in Limits}

----------------------------------------------------------------------------
(* LimitEigenvalues(Matrix3d S, double limitEigenvalue)                    *)

\* lines 166-167: es.compute(S)
LimitEigenvalues_Compute ==
    /\ pc = "LimitEigenvalues"
    /\ es' \in SelfAdjointEigenSolver(S)
    /\ pc' = "LimitEigenvalues_if"
    /\ UNCHANGED <<M, M0, S, ret, svd, limitEigenvalue, min, max, S0, retM>>
    /\ UNCHANGED <<polDecLocals, pinvLocals, doubleLocals>>

\* lines 169-172
amax_eigenvalue == fabs(maxCoeff(es.eigenvalues))
amin_eigenvalue == fabs(minCoeff(es.eigenvalues))

\* lines 176-181 and 183-188: the matrix rebuilt with the given magnitude
LimitEigenvalues_Scaled(a_eigenvalue) ==
    LET scale == RDiv(a_eigenvalue, limitEigenvalue)
        Vm == es.eigenvectors
        S_diag == MatMul(MatMul(inverse(Vm), S), Vm)
        S_div == LET f(i, j) == RDiv(S_diag[i][j], scale) IN Mat(f)
    IN MatMul(MatMul(Vm, S_div), inverse(Vm))

\* line 174
LimitEigenvalues_Applies ==
    \/ RLess(limitEigenvalue, amax_eigenvalue)
    \/ RLess(limitEigenvalue, amin_eigenvalue)

\* lines 175-181
LimitEigenvalues_ScaleMax ==
    /\ pc = "LimitEigenvalues_if"
    /\ LimitEigenvalues_Applies
    /\ RLess(amin_eigenvalue, amax_eigenvalue)
    /\ retM' = LimitEigenvalues_Scaled(amax_eigenvalue)
    /\ pc' = "LimitEigenvalues_done"
    /\ UNCHANGED <<M, M0, S, ret, svd, es, limitEigenvalue, min, max, S0>>
    /\ UNCHANGED <<polDecLocals, pinvLocals, doubleLocals>>

\* lines 182-189 scaling with amax_eigenvalue: not what the code does
LimitEigenvalues_ScaleMin_UsesMax ==
    /\ pc = "LimitEigenvalues_if"
    /\ LimitEigenvalues_Applies
    /\ ~RLess(amin_eigenvalue, amax_eigenvalue)
    /\ retM' = LimitEigenvalues_Scaled(amax_eigenvalue)
    /\ pc' = "LimitEigenvalues_done"
    /\ UNCHANGED <<M, M0, S, ret, svd, es, limitEigenvalue, min, max, S0>>
    /\ UNCHANGED <<polDecLocals, pinvLocals, doubleLocals>>

\* lines 182-189
LimitEigenvalues_ScaleMin ==
    /\ pc = "LimitEigenvalues_if"
    /\ LimitEigenvalues_Applies
    /\ ~RLess(amin_eigenvalue, amax_eigenvalue)
    /\ retM' = LimitEigenvalues_Scaled(amin_eigenvalue)
    /\ pc' = "LimitEigenvalues_done"
    /\ UNCHANGED <<M, M0, S, ret, svd, es, limitEigenvalue, min, max, S0>>
    /\ UNCHANGED <<polDecLocals, pinvLocals, doubleLocals>>

\* lines 190-192
LimitEigenvalues_NoLimit ==
    /\ pc = "LimitEigenvalues_if"
    /\ ~LimitEigenvalues_Applies
    /\ retM' = S
    /\ pc' = "LimitEigenvalues_done"
    /\ UNCHANGED <<M, M0, S, ret, svd, es, limitEigenvalue, min, max, S0>>
    /\ UNCHANGED <<polDecLocals, pinvLocals, doubleLocals>>

InitLimitEigenvalues ==
    /\ pc = "LimitEigenvalues"
    /\ S \in SymmetricInputs
    /\ S0 = S
    /\ limitEigenvalue \in Limits
    /\ es = NoEig /\ min = RZero /\ max = RZero /\ retM = ZeroMat
    /\ M = ZeroMat /\ M0 = ZeroMat /\ ret = FALSE /\ svd = NoSVD
    /\ PolDecIdle /\ PinvIdle /\ DoubleIdle

NextLimitEigenvalues ==
    \/ LimitEigenvalues_Compute
    \/ LimitEigenvalues_ScaleMax
    \/ LimitEigenvalues_ScaleMin
    \/ LimitEigenvalues_NoLimit

SpecLimitEigenvalues == InitLimitEigenvalues /\ [][NextLimitEigenvalues]_vars

----------------------------------------------------------------------------
(* LimitMinMaxEigenvalues(Matrix3d &S, double min, double max)             *)

\* lines 200-201: es.compute(S)
LimitMinMaxEigenvalues_Compute ==
    /\ pc = "LimitMinMaxEigenvalues"
    /\ es' \in SelfAdjointEigenSolver(S)
    /\ pc' = "LimitMinMaxEigenvalues_if"
    /\ UNCHANGED <<M, M0, S, ret, svd, limitEigenvalue, min, max, S0, retM>>
    /\ UNCHANGED <<polDecLocals, pinvLocals, doubleLocals>>

\* line 203 with && for ||: not what the code does
LimitMinMaxEigenvalues_Applies_And ==
    /\ RLess(max, maxCoeff(es.eigenvalues))
    /\ RLess(minCoeff(es.eigenvalues), min)

\* line 203
LimitMinMaxEigenvalues_Applies ==
    \/ RLess(max, maxCoeff(es.eigenvalues))
    \/ RLess(minCoeff(es.eigenvalues), min)

\* lines 207-214: the loop body for one diagonal entry
LimitMinMaxEigenvalues_ClampEntry(s) ==
    IF RLess(s, min) THEN min
    ELSE IF RLess(max, s) THEN max
    ELSE s

\* lines 204-217
LimitMinMaxEigenvalues_Limit ==
    /\ pc = "LimitMinMaxEigenvalues_if"
    /\ LimitMinMaxEigenvalues_Applies
    /\ LET S_diag0 == asDiagonal(es.eigenvalues)
           Vm == es.eigenvectors
           S_diag == LET f(i, j) ==
                          IF i = j THEN LimitMinMaxEigenvalues_ClampEntry(S_diag0[i][i])
                          ELSE S_diag0[i][j]
                     IN Mat(f)
       IN S' = MatMul(MatMul(Vm, S_diag), inverse(Vm))
    /\ ret' = TRUE
    /\ pc' = "LimitMinMaxEigenvalues_done"
    /\ UNCHANGED <<M, M0, svd, es, limitEigenvalue, min, max, S0, retM>>
    /\ UNCHANGED <<polDecLocals, pinvLocals, doubleLocals>>

\* lines 218-220
LimitMinMaxEigenvalues_NoLimit ==
    /\ pc = "LimitMinMaxEigenvalues_if"
    /\ ~LimitMinMaxEigenvalues_Applies
    /\ ret' = FALSE
    /\ pc' = "LimitMinMaxEigenvalues_done"
    /\ UNCHANGED <<M, M0, S, svd, es, limitEigenvalue, min, max, S0, retM>>
    /\ UNCHANGED <<polDecLocals, pinvLocals, doubleLocals>>

InitLimitMinMaxEigenvalues ==
    /\ pc = "LimitMinMaxEigenvalues"
    /\ S \in SymmetricInputs
    /\ S0 = S
    /\ min \in SignedLimits
    /\ max \in SignedLimits
    /\ es = NoEig /\ limitEigenvalue = RZero /\ retM = ZeroMat
    /\ M = ZeroMat /\ M0 = ZeroMat /\ ret = FALSE /\ svd = NoSVD
    /\ PolDecIdle /\ PinvIdle /\ DoubleIdle

NextLimitMinMaxEigenvalues ==
    \/ LimitMinMaxEigenvalues_Compute
    \/ LimitMinMaxEigenvalues_Limit
    \/ LimitMinMaxEigenvalues_NoLimit

SpecLimitMinMaxEigenvalues ==
    InitLimitMinMaxEigenvalues /\ [][NextLimitMinMaxEigenvalues]_vars

----------------------------------------------------------------------------
(* LimitDoubleMagnitude(double &x, const double limit).  A finite double   *)
(* is a sign bit and a magnitude, so that zero carries a sign.             *)

MaxMag == 5

Doubles == [neg : BOOLEAN, mag : 0..MaxMag]

\* the order of the values: both zeros compare equal
DValue(d) == IF d.neg THEN -d.mag ELSE d.mag

\* fabs(double)
dfabs(d) == [neg |-> FALSE, mag |-> d.mag]

\* line 22 without copysign: not what the code does
copysign1_Positive(d) == [neg |-> FALSE, mag |-> 1]

\* copysign(1, x)
copysign1(d) == [neg |-> d.neg, mag |-> 1]

\* double * double
DMul(a, b) == [neg |-> (a.neg # b.neg), mag |-> a.mag * b.mag]

\* line 21, condition true: line 22
LimitDoubleMagnitude_Limit ==
    /\ pc = "LimitDoubleMagnitude"
    /\ DValue(dfabs(x)) > DValue(limit)
    /\ x' = DMul(limit, copysign1(x))
    /\ pc' = "LimitDoubleMagnitude_done"
    /\ UNCHANGED <<M, M0, S, ret, svd, limit, x0>>
    /\ UNCHANGED <<polDecLocals, pinvLocals, eigenLocals>>

\* line 21, condition false
LimitDoubleMagnitude_Keep ==
    /\ pc = "LimitDoubleMagnitude"
    /\ ~(DValue(dfabs(x)) > DValue(limit))
    /\ pc' = "LimitDoubleMagnitude_done"
    /\ UNCHANGED <<M, M0, S, ret, svd, x, limit, x0>>
    /\ UNCHANGED <<polDecLocals, pinvLocals, eigenLocals>>

InitLimitDoubleMagnitude ==
    /\ pc = "LimitDoubleMagnitude"
    /\ x \in Doubles
    /\ x0 = x
    /\ limit \in Doubles
    /\ M = ZeroMat /\ M0 = ZeroMat /\ S = ZeroMat /\ ret = FALSE /\ svd = NoSVD
    /\ PolDecIdle /\ PinvIdle /\ EigenIdle

NextLimitDoubleMagnitude ==
    \/ LimitDoubleMagnitude_Limit
    \/ LimitDoubleMagnitude_Keep

SpecLimitDoubleMagnitude ==
    InitLimitDoubleMagnitude /\ [][NextLimitDoubleMagnitude]_vars

----------------------------------------------------------------------------
(* The header as a whole: one call of any of its functions.                *)

Init ==
    \/ InitPolDec
    \/ InitPinv
    \/ InitLimitEigenvalues
    \/ InitLimitMinMaxEigenvalues
    \/ InitLimitDoubleMagnitude

Next ==
    \/ NextPolDec
    \/ NextPinv
    \/ NextLimitEigenvalues
    \/ NextLimitMinMaxEigenvalues
    \/ NextLimitDoubleMagnitude

Spec == Init /\ [][Next]_vars

----------------------------------------------------------------------------
(* Properties.                                                             *)

InRange(s, lo, hi) == RLeq(lo, s) /\ RLeq(s, hi)

Clip(s, lo, hi) == IF RLess(s, lo) THEN lo ELSE IF RLess(hi, s) THEN hi ELSE s

PolDec_AfterIf == pc \in {"PolDec_scale", "PolDec_T", "PolDec_done"}

PolDec_AfterLoop == pc \in {"PolDec_T", "PolDec_done"}

\* v is an eigenvector of A for the eigenvalue l
IsEigenpair(A, l, v) == MatVec(A, v) = VecScale(l, v)

\* C1: after the clamp loop every diagonal entry of S lies in [0.3, 2.0],
\* whether or not the flip branch ran and whatever is returned, and every
\* eigenvalue of the returned T lies in [0.3, 2.0].
C1_StretchesClamped ==
    /\ PolDec_AfterLoop =>
         \A i \in Idx : InRange(S[i][i], <<3, 10>>, <<2, 1>>)
    /\ pc = "PolDec_done" =>
         /\ SelfAdjointEigenSolver(T) # {}
         /\ \A e \in SelfAdjointEigenSolver(T) : \A i \in Idx :
               InRange(e.eigenvalues[i], <<3, 10>>, <<2, 1>>)

C1_Witness ==
    /\ pc = "PolDec_done" /\ flipped /\ ~ret
    /\ \E i \in Idx : RLess(<<2, 1>>, S_eigenvalues[i])
    /\ ~IsDiagonal(T)

\* C2 (as stated): an improper first rotation always takes the flip branch,
\* after which det(R) = +1 and PolDec returns true.
C2_FlipAlwaysProper ==
    /\ PolDec_AfterIf =>
         /\ ~flipped => ~RLess(determinant(R), RZero)
         /\ flipped => determinant(R) = ROne
    /\ (pc = "PolDec_done" /\ flipped) => ret

\* C2 (amended): an improper first rotation always takes the flip branch;
\* when the smallest singular value of M is not zero, det(R) = +1 after the
\* branch and PolDec returns true.
C2_FlipProperWhenNonsingular ==
    /\ PolDec_AfterIf =>
         /\ ~flipped => ~RLess(determinant(R), RZero)
         /\ (flipped /\ minCoeff(S_eigenvalues) # RZero) => determinant(R) = ROne
    /\ (pc = "PolDec_done" /\ flipped /\ minCoeff(S_eigenvalues) # RZero) => ret

C2_Witness ==
    /\ pc = "PolDec_done" /\ flipped /\ ret
    /\ M0 = asDiagonal(<<ROne, ROne, <<-1, 1>>>>)
    /\ determinant(R) = ROne

\* C3: the value returned is true exactly when |det(R) - 1| < 1e-8, and for
\* either value R = U*V^T, T = V*S*V^T with the clamped S, and M = R*T.
C3_ReturnTellsProperRotation ==
    pc = "PolDec_done" =>
      /\ ret <=> RLess(fabs(RSub(determinant(R), ROne)), <<1, 100000000>>)
      /\ R = MatMul(U, transpose(V))
      /\ T = MatMul(MatMul(V, S), transpose(V))
      /\ M = MatMul(R, T)
      /\ T # ZeroMat

C3_Witness ==
    /\ pc = "PolDec_done" /\ ~ret
    /\ determinant(R) = <<-1, 1>>
    /\ R # ZeroMat /\ T # ZeroMat /\ M = MatMul(R, T)

\* C4: M keeps the caller's value until the last step, and after the call it
\* is R*T of the returned R and T.
C4_InputOverwritten ==
    /\ pc \in {"PolDec", "PolDec_if", "PolDec_scale", "PolDec_T"} => M = M0
    /\ pc = "PolDec_done" => M = MatMul(R, T)

C4_Witness ==
    /\ pc = "PolDec_done" /\ flipped /\ ret
    /\ M # M0 /\ M = MatMul(R, T)

\* C5: when M has positive determinant and all singular values in [0.3, 2.0],
\* PolDec does not flip, clamps nothing, returns true, and R*T and the
\* overwritten M equal the input; for M = I, R = I and T = I.
C5_WellConditionedUnchanged ==
    (/\ PolDec_AfterIf
     /\ RLess(RZero, determinant(M0))
     /\ \A i \in Idx : InRange(S_eigenvalues[i], <<3, 10>>, <<2, 1>>))
    => /\ ~flipped
       /\ S = asDiagonal(S_eigenvalues)
       /\ pc = "PolDec_done" =>
            /\ ret
            /\ M = M0
            /\ MatMul(R, T) = M0
            /\ M0 = Identity => (R = Identity /\ T = Identity)

C5_Witness ==
    /\ pc = "PolDec_done" /\ M0 = Identity
    /\ ret /\ ~flipped /\ R = Identity /\ T = Identity /\ M = Identity

\* C10: on the flip path imin is the first index of the smallest singular
\* value s, the negated entry of S is still -s <= 0 when the clamp loop
\* starts, it is 0.3 after the loop, and the returned T stretches by 0.3
\* along the matching column of V.
C10_FlippedStretchIsMin ==
    flipped =>
      /\ imin \in Idx
      /\ \A j \in Idx : RLeq(S_eigenvalues[imin], S_eigenvalues[j])
      /\ \A j \in Idx : j < imin => RLess(S_eigenvalues[imin], S_eigenvalues[j])
      /\ pc = "PolDec_scale" =>
           /\ S[imin][imin] = RNeg(S_eigenvalues[imin])
           /\ RLeq(S[imin][imin], RZero)
      /\ PolDec_AfterLoop => S[imin][imin] = <<3, 10>>
      /\ pc = "PolDec_done" => IsEigenpair(T, <<3, 10>>, col(V, imin))

C10_Witness ==
    /\ pc = "PolDec_done" /\ flipped
    /\ M0 = asDiagonal(<<ROne, ROne, <<-1, 1>>>>)
    /\ diagonal(S) = <<<<3, 10>>, ROne, ROne>>

\* C8: the SVD every call starts with exists (no other step has a
\* condition), the result is V*diag(d)*U^T with d = 1/s for s > 1e-6 and
\* d = 1 otherwise, and M*P*M = M when all singular values exceed 1e-6.
C8_PseudoInverse ==
    /\ pc = "pinv" => JacobiSVD(M) # {}
    /\ pc = "pinv_done" =>
         LET s == svd.singularValues
             d(i) == IF RLess(<<1, 1000000>>, s[i]) THEN RDiv(ROne, s[i]) ELSE ROne
         IN /\ MatMul(MatMul(svd.matrixU, asDiagonal(s)), transpose(svd.matrixV)) = M
            /\ pInv = MatMul(MatMul(svd.matrixV, asDiagonal(<<d(1), d(2), d(3)>>)),
                             transpose(svd.matrixU))
            /\ (\A i \in Idx : RLess(<<1, 1000000>>, s[i])) =>
                  MatMul(MatMul(M, pInv), M) = M

C8_Witness ==
    /\ pc = "pinv_done"
    /\ svd.singularValues = <<ROne, <<1, 1000000>>, RZero>>
    /\ singularValuesInv = <<ROne, ROne, ROne>>
    /\ ~IsDiagonal(pInv)

\* C7: with a = max(|lambda_max|, |lambda_min|) > L every eigenvalue is
\* multiplied by L / a, so the largest magnitude becomes L and ratios are
\* kept; otherwise the result is S.
C7_UniformRescale ==
    pc = "LimitEigenvalues_done" =>
      LET l == es.eigenvalues
          Vm == es.eigenvectors
          L == limitEigenvalue
          a == IF RLess(fabs(l[1]), fabs(l[3])) THEN fabs(l[3]) ELSE fabs(l[1])
          r(i) == RDiv(RMul(l[i], L), a)
      IN /\ \A i \in Idx : IsEigenpair(S, l[i], col(Vm, i))
         /\ RLeq(l[1], l[2]) /\ RLeq(l[2], l[3])
         /\ RLess(L, a) =>
              /\ \A i \in Idx : IsEigenpair(retM, r(i), col(Vm, i))
              /\ \E i \in Idx : fabs(r(i)) = L
              /\ \A i \in Idx : RLeq(fabs(r(i)), L)
              /\ \A i, j \in Idx : RMul(r(i), l[j]) = RMul(r(j), l[i])
         /\ ~RLess(L, a) => retM = S

C7_Witness ==
    /\ pc = "LimitEigenvalues_done"
    /\ es.eigenvalues = <<<<-5, 1>>, ROne, ROne>>
    /\ limitEigenvalue = <<2, 1>>
    /\ ~IsDiagonal(S)
    /\ IsEigenpair(retM, <<-2, 1>>, col(es.eigenvectors, 1))
    /\ IsEigenpair(retM, <<2, 5>>, col(es.eigenvectors, 2))

\* C6: true is returned and S rewritten exactly when the largest eigenvalue
\* is > max or the smallest is < min, and then each eigenvalue of the new S
\* is the old one clipped on its own, which for min <= max lies in
\* [min, max]; otherwise false is returned and S is unchanged.
C6_ClampEachEigenvalue ==
    pc = "LimitMinMaxEigenvalues_done" =>
      LET l == es.eigenvalues
          Vm == es.eigenvectors
      IN /\ \A i \in Idx : IsEigenpair(S0, l[i], col(Vm, i))
         /\ RLeq(l[1], l[2]) /\ RLeq(l[2], l[3])
         /\ ret <=> (RLess(max, l[3]) \/ RLess(l[1], min))
         /\ ret =>
              \A i \in Idx :
                 /\ IsEigenpair(S, Clip(l[i], min, max), col(Vm, i))
                 /\ RLeq(min, max) => InRange(Clip(l[i], min, max), min, max)
         /\ ~ret => S = S0

C6_Witness ==
    /\ pc = "LimitMinMaxEigenvalues_done" /\ ret
    /\ es.eigenvalues = <<<<-5, 1>>, ROne, <<5, 1>>>>
    /\ min = <<-2, 1>> /\ max = <<2, 1>>
    /\ ~IsDiagonal(S0)
    /\ \E e \in SelfAdjointEigenSolver(S) :
          e.eigenvalues = <<<<-2, 1>>, ROne, <<2, 1>>>>

\* C9: for a limit L >= 0, x is unchanged if |x| <= L and otherwise becomes
\* L with the sign of x; the result has |x| <= L and the sign bit of the
\* input.
C9_MagnitudeLimited ==
    (pc = "LimitDoubleMagnitude_done" /\ ~limit.neg) =>
      /\ x0.mag <= limit.mag => x = x0
      /\ x0.mag > limit.mag => x = [neg |-> x0.neg, mag |-> limit.mag]
      /\ x.mag <= limit.mag
      /\ x.neg = x0.neg

C9_Witness ==
    /\ pc = "LimitDoubleMagnitude_done" /\ ~limit.neg
    /\ x0 = [neg |-> TRUE, mag |-> 3]
    /\ limit.mag = 2
    /\ x = [neg |-> TRUE, mag |-> 2]

====
